---------------------------- MODULE Spec2Model ----------------------------
(***************************************************************************)
(* A model of the resource-monitoring core of okular (src/src/monitor.rs): *)
(* the per-tick thread-group aggregation of SystemMonitor::refresh, the    *)
(* bounded per-pid history of ProcessHistory, and the capacity changes of  *)
(* SystemMonitor::set_max_samples.                                         *)
(*                                                                         *)
(* Numbers: f32 and u64 metrics are small naturals (no overflow and no NaN *)
(* is reachable with the inputs drawn here).  Option<u32> tgid None is 0,  *)
(* Option<f32> gpu_percent None is -1.                                     *)
(***************************************************************************)
EXTENDS Integers, Sequences, FiniteSets, TLC

(* ------------------------------ bounds --------------------------------- *)

\* Number of pids the OS can hand out (pids are 1..MaxPid).
MaxPid == 3
\* Length of the returned list after processes.truncate(..): the code cuts at
\* 150 (monitor.rs:407); the model cuts at TopN, which stays below MaxPid so
\* that the cut happens.
TopN == 2
\* Largest history capacity (max_samples) that is configured or passed.
MaxCap == 2
\* Distinct sample tuples offered to a ProcessHistory that is driven directly.
MaxVal == 2
\* Largest cumulative byte count /proc/net/dev reports: the counters range
\* over 0..MaxNet, which stands for the u64 range.
MaxNet == 2
\* Most logical cores of a machine.
MaxCores == 3
\* The detail-view updates of a process window that are counted.
MaxUpdates == 6
\* Width of the affinity mask word: the code parses the mask into a u64 (64
\* bits); the model's word has MaskBits bits, fewer than MaxCores so that a
\* machine can have more cores than the word has bits.
MaskBits == 2

\* The load levels of one raw sample (two levels give ties and strict orders;
\* with threads a group's total CPU ranges over 0..MaxPid).
LoadLevels == { 0, 1 }
\* Process start times: two processes that hold the same pid one after the
\* other differ in their start time.
StartTimes == { 1, 2 }

Pids == 1..MaxPid

Min(a, b) == IF a < b THEN a ELSE b
Max(a, b) == IF a > b THEN a ELSE b

(* ------------------------- ProcessHistory ------------------------------ *)

\* #[derive(Default)] ProcessHistory: eight empty VecDeques.
ProcessHistoryDefault ==
    [ cpu_history        |-> << >>,
      memory_history     |-> << >>,
      disk_read_history  |-> << >>,
      disk_write_history |-> << >>,
      gpu_mem_history    |-> << >>,
      gpu_util_history   |-> << >>,
      net_rx_history     |-> << >>,
      net_tx_history     |-> << >> ]

Buffers == DOMAIN ProcessHistoryDefault

\* Mutant: `if` for `while`, a single pop_front.
pop_front_if(buf, max_samples) ==
    IF Len(buf) > max_samples THEN Tail(buf) ELSE buf

\* Mutant: pop_back for pop_front, the newest sample is dropped.
RECURSIVE pop_back_while(_, _)
pop_back_while(buf, max_samples) ==
    IF Len(buf) > max_samples
    THEN pop_back_while(SubSeq(buf, 1, Len(buf) - 1), max_samples)
    ELSE buf

\* while buf.len() > max_samples { buf.pop_front(); }
RECURSIVE pop_front_while(_, _)
pop_front_while(buf, max_samples) ==
    IF Len(buf) > max_samples
    THEN pop_front_while(Tail(buf), max_samples)
    ELSE buf

\* ProcessHistory::add_sample: push_back on every buffer, then trim each.
add_sample(h, cpu, memory, disk_read, disk_write, gpu_mem, gpu_util, net_rx, net_tx, max_samples) ==
    [ cpu_history        |-> pop_front_while(Append(h.cpu_history, cpu), max_samples),
      memory_history     |-> pop_front_while(Append(h.memory_history, memory), max_samples),
      disk_read_history  |-> pop_front_while(Append(h.disk_read_history, disk_read), max_samples),
      disk_write_history |-> pop_front_while(Append(h.disk_write_history, disk_write), max_samples),
      gpu_mem_history    |-> pop_front_while(Append(h.gpu_mem_history, gpu_mem), max_samples),
      gpu_util_history   |-> pop_front_while(Append(h.gpu_util_history, gpu_util), max_samples),
      net_rx_history     |-> pop_front_while(Append(h.net_rx_history, net_rx), max_samples),
      net_tx_history     |-> pop_front_while(Append(h.net_tx_history, net_tx), max_samples) ]

\* Mutant: the loop over net_tx_history is missing.
trim_to_but_net_tx(h, max_samples) ==
    [ b \in Buffers |-> IF b = "net_tx_history" THEN h[b] ELSE pop_front_while(h[b], max_samples) ]

\* Mutant: `while len >= max_samples`, one sample too many is removed.
trim_to_below(h, max_samples) ==
    [ b \in Buffers |-> pop_front_while(h[b], Max(max_samples, 1) - 1) ]

\* ProcessHistory::trim_to: trim every buffer, add nothing.
trim_to(h, max_samples) ==
    [ b \in Buffers |-> pop_front_while(h[b], max_samples) ]


(* --------------------------- raw samples ------------------------------- *)

\* The per-process readings of one load level: cpu_usage()/cpu_divisor,
\* memory(), disk_usage().read_bytes / .written_bytes, and the NVML share
\* (None, written -1, for an idle process).
Load(k) ==
    [ cpu_percent      |-> k,
      memory_bytes     |-> k + 1,
      disk_read_bytes  |-> k,
      disk_write_bytes |-> 2 * k,
      gpu_percent      |-> IF k = 0 THEN -1 ELSE k ]

\* One entry of self.system.processes() together with read_tgid(pid):
\* tgid 0 is None (status file unreadable or unparsable), start is the
\* start time of the process that holds the pid.
RawSample(pid, tgid, start, k) ==
    [ pid              |-> pid,
      tgid             |-> tgid,
      start            |-> start,
      cpu_percent      |-> Load(k).cpu_percent,
      memory_bytes     |-> Load(k).memory_bytes,
      disk_read_bytes  |-> Load(k).disk_read_bytes,
      disk_write_bytes |-> Load(k).disk_write_bytes,
      gpu_percent      |-> Load(k).gpu_percent ]

\* The ProcessInfo built in the first pass of refresh for one raw sample.
ProcessInfoOf(s) ==
    [ pid              |-> s.pid,
      cpu_percent      |-> s.cpu_percent,
      memory_bytes     |-> s.memory_bytes,
      disk_read_bytes  |-> s.disk_read_bytes,
      disk_write_bytes |-> s.disk_write_bytes,
      gpu_percent      |-> s.gpu_percent,
      net_rx_bytes     |-> 0,
      net_tx_bytes     |-> 0,
      children         |-> << >>,
      is_group         |-> FALSE ]

(* ------------------------ ProcessInfo totals --------------------------- *)

RECURSIVE SumSeq(_)
SumSeq(s) == IF s = << >> THEN 0 ELSE Head(s) + SumSeq(Tail(s))

RECURSIVE MaxSeq(_, _)
MaxSeq(s, acc) == IF s = << >> THEN acc ELSE MaxSeq(Tail(s), Max(acc, Head(s)))

\* children.iter().map(|c| c.<field>)
ChildField(p, f) == [ i \in 1..Len(p.children) |-> p.children[i][f] ]

total_cpu(p) == p.cpu_percent + SumSeq(ChildField(p, "cpu_percent"))

\* Mutant: memory summed over the children like the other totals.
total_memory_with_children(p) == p.memory_bytes + SumSeq(ChildField(p, "memory_bytes"))

total_memory(p) == p.memory_bytes

total_disk_read(p) == p.disk_read_bytes + SumSeq(ChildField(p, "disk_read_bytes"))

\* Mutant: the children's written bytes are left out.
total_disk_write_leader_only(p) == p.disk_write_bytes

total_disk_write(p) == p.disk_write_bytes + SumSeq(ChildField(p, "disk_write_bytes"))

total_disk_io(p) == total_disk_read(p) + total_disk_write(p)

\* unwrap_or(0.0) on the leader, filter_map + fold(0.0, max) on the children.
total_gpu(p) ==
    Max(IF p.gpu_percent = -1 THEN 0 ELSE p.gpu_percent,
        MaxSeq(SelectSeq(ChildField(p, "gpu_percent"), LAMBDA g : g # -1), 0))

child_count(p) == Len(p.children)


(* ---------------------- thread-group aggregation ----------------------- *)

\* A process table is a function from the pids present to their raw samples.
EmptyTable == [ p \in {} |-> 0 ]

\* Mutant: the guard compares unwrap_or(0), an unreadable thread-group id
\* makes the sample a thread of group 0.
is_thread_unwrap_or_zero(s) == s.tgid # s.pid

\* Second pass, match arm `Some(tgid) if tgid != pid`.
is_thread(s) == s.tgid # 0 /\ s.tgid # s.pid

\* The samples the second pass pushes into threads_by_tgid.
ThreadPids(table) == { p \in DOMAIN table : is_thread(table[p]) }

\* The group leaders of a table: pid equal to tgid, or tgid unreadable.
LeaderPids(table) == { p \in DOMAIN table : table[p].tgid \in { 0, p } }

\* Every order in which the elements of S can be listed.
Perms(S) ==
    { s \in [ 1..Cardinality(S) -> S ] : \A i, j \in 1..Cardinality(S) : s[i] = s[j] => i = j }

\* Second pass: threads_by_tgid.entry(tgid).or_default().push(proc_info),
\* in the iteration order of all_processes.
threads_by_tgid(table, ord) ==
    [ t \in { table[p].tgid : p \in ThreadPids(table) } |->
        LET members == SelectSeq(ord, LAMBDA p : table[p].tgid = t)
        IN  [ i \in 1..Len(members) |-> ProcessInfoOf(table[members[i]]) ] ]

\* Mutant: the insert is moved out of the match, every sample is a leader too.
thread_group_leaders_all(table) ==
    [ p \in DOMAIN table |-> ProcessInfoOf(table[p]) ]

\* Mutant: a thread whose leader is missing is kept as a leader of its own.
thread_group_leaders_with_orphans(table) ==
    [ p \in { q \in DOMAIN table :
                \/ ~is_thread(table[q])
                \/ table[q].tgid \notin { r \in DOMAIN table : ~is_thread(table[r]) } } |->
        ProcessInfoOf(table[p]) ]

\* Mutant: idle samples (no CPU, no disk I/O) are skipped in the first pass.
thread_group_leaders_active(table) ==
    [ p \in { q \in DOMAIN table :
                /\ ~is_thread(table[q])
                /\ table[q].cpu_percent + table[q].disk_read_bytes + table[q].disk_write_bytes > 0 } |->
        ProcessInfoOf(table[p]) ]

\* Second pass, arm `_`: thread_group_leaders.insert(pid, proc_info).
thread_group_leaders(table) ==
    [ p \in { q \in DOMAIN table : ~is_thread(table[q]) } |-> ProcessInfoOf(table[p]) ]

\* The orders in which the HashMaps of one refresh may be iterated: std's
\* HashMap is seeded per instance, so every order can occur.  `threads` is
\* the order in which all_processes yields the thread samples (its order
\* among the leaders has no effect: they are inserted into another map);
\* `leaders` is the order in which thread_group_leaders yields its values.
\* The order of threads_by_tgid has no effect (one assignment per key).
IterationOrders(table) ==
    { [ threads |-> a, leaders |-> b ] :
        a \in Perms(ThreadPids(table)), b \in Perms(DOMAIN thread_group_leaders(table)) }

\* Mutant: children.extend(threads.into_iter().skip(1)), the first thread of
\* a group is lost.
attach_threads_skip_first(leaders, threads) ==
    [ p \in DOMAIN leaders |->
        IF p \in DOMAIN threads
        THEN [ leaders[p] EXCEPT !.is_group = TRUE, !.children = Tail(threads[p]) ]
        ELSE leaders[p] ]

\* Third pass: a group whose leader is in the map marks it and hands it its
\* threads; a group without a leader is dropped.
attach_threads(leaders, threads) ==
    [ p \in DOMAIN leaders |->
        IF p \in DOMAIN threads
        THEN [ leaders[p] EXCEPT !.is_group = TRUE, !.children = threads[p] ]
        ELSE leaders[p] ]

\* thread_group_leaders.into_values().collect()
into_values(map, ord) == [ i \in 1..Len(ord) |-> map[ord[i]] ]

\* Insert x behind every element that does not compare Greater than it
\* under |a, b| b.total_cpu().partial_cmp(&a.total_cpu()): behind every
\* element whose total CPU is at least x's.
RECURSIVE InsertSorted(_, _)
InsertSorted(sorted, x) ==
    IF sorted = << >> THEN << x >>
    ELSE IF total_cpu(Head(sorted)) >= total_cpu(x)
         THEN << Head(sorted) >> \o InsertSorted(Tail(sorted), x)
         ELSE << x >> \o sorted

\* processes.sort_by(..): a stable sort, total CPU descending.
RECURSIVE sort_by_total_cpu(_)
sort_by_total_cpu(list) ==
    IF list = << >> THEN << >>
    ELSE InsertSorted(sort_by_total_cpu(SubSeq(list, 1, Len(list) - 1)), list[Len(list)])

\* Vec::truncate(n)
truncate(list, n) == SubSeq(list, 1, Min(Len(list), n))

\* Mutant: truncate(150) before sort_by.
aggregate_truncate_first(table, ord) ==
    LET leaders == attach_threads(thread_group_leaders(table), threads_by_tgid(table, ord.threads))
    IN  sort_by_total_cpu(truncate(into_values(leaders, ord.leaders), TopN))

\* Lines 345-407 of refresh: the list returned for one process table.
aggregate(table, ord) ==
    LET leaders == attach_threads(thread_group_leaders(table), threads_by_tgid(table, ord.threads))
    IN  truncate(sort_by_total_cpu(into_values(leaders, ord.leaders)), TopN)


(* --------------------------- process control --------------------------- *)

\* enum Signal
Signal == { "Term", "Kill", "Stop", "Cont" }

\* Signal::number
number(signal) ==
    CASE signal = "Term" -> 15
      [] signal = "Kill" -> 9
      [] signal = "Stop" -> 19
      [] signal = "Cont" -> 18

\* What the comments of enum Signal say each variant is for.
SignalPurpose ==
    [ Term |-> "terminate", Kill |-> "force-kill", Stop |-> "pause", Cont |-> "resume" ]

\* io::Result: Ok(value) or Err(kind).
Ok(value) == [ ok |-> TRUE, kind |-> "", value |-> value ]
Err(kind) == [ ok |-> FALSE, kind |-> kind, value |-> << >> ]

\* A process table for the control calls: a function from the pids that
\* exist to [owned, stopped, affinity]; `owned` says whether the caller has
\* rights over the process, `affinity` is its set of allowed cores.
Remove(os_procs, pid) == [ p \in DOMAIN os_procs \ { pid } |-> os_procs[p] ]

\* Command::new(..).output(): the program is started, or it cannot be
\* (not installed, not in PATH) and output() is Err(NotFound).
SpawnOutcome(installed) == IF installed THEN "spawned" ELSE "no_such_program"

\* kill(1): `kill -<number> <pid>`; exit status and stderr, and the process
\* table afterwards.
kill_program(signal_number, pid, os_procs) ==
    IF pid \notin DOMAIN os_procs
    THEN [ success |-> FALSE, stderr |-> "No such process", os |-> os_procs ]
    ELSE IF ~os_procs[pid].owned
    THEN [ success |-> FALSE, stderr |-> "Operation not permitted", os |-> os_procs ]
    ELSE [ success |-> TRUE, stderr |-> "",
           os |-> CASE signal_number \in { 9, 15 } -> Remove(os_procs, pid)
                    [] signal_number = 19 -> [ os_procs EXCEPT ![pid].stopped = TRUE ]
                    [] signal_number = 18 -> [ os_procs EXCEPT ![pid].stopped = FALSE ]
                    [] OTHER -> os_procs ]

\* send_signal: spawn kill, Ok(()) on exit status 0, otherwise
\* Err(PermissionDenied) with kill's stderr in the message.
send_signal(pid, signal, spawn, os_procs) ==
    IF spawn # "spawned"
    THEN [ result |-> Err("NotFound"), message |-> "", commands |-> << >>, os |-> os_procs ]
    ELSE LET output == kill_program(number(signal), pid, os_procs)
         IN  [ result   |-> IF output.success THEN Ok(<< >>) ELSE Err("PermissionDenied"),
               message  |-> output.stderr,
               commands |-> << "kill" >>,
               os       |-> output.os ]

\* kill_process
kill_process(pid, force, spawn, os_procs) ==
    IF force THEN send_signal(pid, "Kill", spawn, os_procs)
    ELSE send_signal(pid, "Term", spawn, os_procs)

(* ----------------------------- CPU affinity ---------------------------- *)

\* /proc/cpuinfo as its sequence of words: per logical core one line
\* "processor : N" and one line "model name : <name>".
RECURSIVE CpuInfoText(_, _)
CpuInfoText(cores, model_name) ==
    IF cores = 0 THEN << >>
    ELSE << "processor", ":", "N", "model", "name", ":" >> \o model_name
            \o CpuInfoText(cores - 1, model_name)

\* Model names as /proc/cpuinfo prints them: most do not hold the lower-case
\* word "processor", some do (QEMU's kvm64 is "Common KVM processor").
ModelNames == { << "Generic", "CPU" >>, << "Common", "KVM", "processor" >> }

\* get_cpu_count: content.matches("processor").count().max(1), or 1 when
\* /proc/cpuinfo cannot be read.
get_cpu_count(cpuinfo) ==
    IF cpuinfo.readable
    THEN Max(Len(SelectSeq(cpuinfo.content, LAMBDA w : w = "processor")), 1)
    ELSE 1

RECURSIVE Pow2(_)
Pow2(k) == IF k = 0 THEN 1 ELSE 2 * Pow2(k - 1)

\* The affinity mask of a set of cores: bit i is set iff core i is allowed.
RECURSIVE MaskOf(_)
MaskOf(S) ==
    IF S = {} THEN 0
    ELSE LET c == CHOOSE x \in S : TRUE IN Pow2(c) + MaskOf(S \ { c })

\* The digits of n in base 16, most significant first ({:x}).
RECURSIVE HexDigits(_)
HexDigits(n) ==
    IF n < 16 THEN << n >> ELSE Append(HexDigits(n \div 16), n % 16)

\* The number a string of base-16 digits denotes.
RECURSIVE HexValue(_)
HexValue(digits) ==
    IF digits = << >> THEN 0
    ELSE 16 * HexValue(SubSeq(digits, 1, Len(digits) - 1)) + digits[Len(digits)]

\* u64::from_str_radix(s, 16): the value, or an error when it does not fit
\* the word (PosOverflow); -1 stands for Err.
from_str_radix(digits) ==
    LET value == HexValue(digits)
    IN  IF value < Pow2(MaskBits) THEN value ELSE -1

\* mask & (1 << i) != 0 with a shift count below the word width.
BitIsSet(mask, i) == (mask \div Pow2(i)) % 2 = 1

\* Set CPU list string: cpus.iter().map(to_string).join(","), as its tokens.
RECURSIVE cpu_list(_)
cpu_list(cpus) ==
    IF cpus = << >> THEN << >>
    ELSE IF Len(cpus) = 1 THEN << cpus[1] >>
    ELSE << cpus[1], "," >> \o cpu_list(Tail(cpus))

\* taskset's reading of a CPU list: the numbers between the commas.
ParseCpuList(tokens) ==
    { tokens[i] : i \in { j \in 1..Len(tokens) : j % 2 = 1 } }

\* taskset(1): `taskset -pc <list> <pid>` on a machine with `cores` cores.
taskset_set_program(list, pid, os_procs, cores) ==
    LET S == ParseCpuList(list) \cap (0..cores - 1)
    IN  IF list = << >>
        THEN [ success |-> FALSE, stderr |-> "failed to parse CPU list", os |-> os_procs ]
        ELSE IF pid \notin DOMAIN os_procs
        THEN [ success |-> FALSE, stderr |-> "No such process", os |-> os_procs ]
        ELSE IF ~os_procs[pid].owned
        THEN [ success |-> FALSE, stderr |-> "Operation not permitted", os |-> os_procs ]
        ELSE IF S = {}
        THEN [ success |-> FALSE, stderr |-> "Invalid argument", os |-> os_procs ]
        ELSE [ success |-> TRUE, stderr |-> "",
               os |-> [ os_procs EXCEPT ![pid].affinity = S ] ]

\* taskset(1): `taskset -p <pid>` prints "pid N's current affinity mask: <hex>";
\* stdout is given as its pieces around the ':'.
taskset_get_program(pid, os_procs) ==
    IF pid \notin DOMAIN os_procs
    THEN [ success |-> FALSE, stdout |-> << >> ]
    ELSE [ success |-> TRUE,
           stdout  |-> << << >>, HexDigits(MaskOf(os_procs[pid].affinity)) >> ]

\* A panic of the calling thread.
Panic == [ ok |-> FALSE, kind |-> "panic", value |-> << >> ]

\* (mask & (1 << i)) != 0 for a u64 mask and a usize i, in a build without
\* overflow checks (release): the shift count is taken modulo the word width.
\* A build with overflow checks (debug) panics on a count of 64 or more.
affinity_bit(mask, i) == BitIsSet(mask, i % MaskBits)

\* get_cpu_affinity on a machine [cores, cpuinfo, build].
get_cpu_affinity(pid, spawn, os_procs, machine) ==
    IF spawn # "spawned"
    THEN [ result |-> Err("NotFound"), commands |-> << >>, os |-> os_procs ]
    ELSE LET output    == taskset_get_program(pid, os_procs)
             mask      == from_str_radix(output.stdout[Len(output.stdout)])
             cpu_count == get_cpu_count(machine.cpuinfo)
         IN  [ commands |-> << "taskset" >>,
               os       |-> os_procs,
               result   |->
                 IF ~output.success THEN Err("Other")
                 ELSE IF mask = -1 THEN Err("InvalidData")
                 ELSE IF machine.build = "debug" /\ cpu_count > MaskBits THEN Panic
                 ELSE Ok([ i \in 1..cpu_count |-> affinity_bit(mask, i - 1) ]) ]

\* Mutant: the is_empty check is missing, taskset is run on an empty list.
set_cpu_affinity_unchecked(pid, cpus, spawn, os_procs, machine) ==
    IF spawn # "spawned"
    THEN [ result |-> Err("NotFound"), commands |-> << >>, os |-> os_procs ]
    ELSE LET output == taskset_set_program(cpu_list(cpus), pid, os_procs, machine.cores)
         IN  [ result   |-> IF output.success THEN Ok(<< >>) ELSE Err("PermissionDenied"),
               commands |-> << "taskset" >>,
               os       |-> output.os ]

\* set_cpu_affinity
set_cpu_affinity(pid, cpus, spawn, os_procs, machine) ==
    IF cpus = << >>
    THEN [ result |-> Err("InvalidInput"), commands |-> << >>, os |-> os_procs ]
    ELSE IF spawn # "spawned"
    THEN [ result |-> Err("NotFound"), commands |-> << >>, os |-> os_procs ]
    ELSE LET output == taskset_set_program(cpu_list(cpus), pid, os_procs, machine.cores)
         IN  [ result   |-> IF output.success THEN Ok(<< >>) ELSE Err("PermissionDenied"),
               commands |-> << "taskset" >>,
               os       |-> output.os ]

(* ----------------------------- get_priority ---------------------------- *)

\* Index of the nice value among the whitespace-separated fields that follow
\* the comm field of /proc/<pid>/stat (state is field 0).
NiceIndex == 16

\* The decimal numbers the fields of a stat file hold.
Numbers == -20..40

\* Each field preceded by one space.
RECURSIVE JoinFields(_)
JoinFields(fields) ==
    IF fields = << >> THEN << >>
    ELSE << " ", Head(fields) >> \o JoinFields(Tail(fields))

\* /proc/<pid>/stat of a process named `comm` with nice value `nice`, as a
\* sequence of tokens: a token is a space, a parenthesis, or a run of other
\* characters.  The kernel prints "pid (comm) state ppid ..." with the name
\* verbatim between the parentheses; priority is 20 + nice.
StatContent(pid, comm, nice) ==
    << ToString(pid), " ", "(" >> \o comm \o << ")" >>
        \o JoinFields(<< "S", "1" >> \o [ k \in 1..13 |-> "0" ]
                      \o << ToString(20 + nice), ToString(nice), "0", "1" >>)

\* str::find(')'): the position of the first occurrence, 0 for None.
find(content, token) ==
    IF \E i \in 1..Len(content) : content[i] = token
    THEN CHOOSE i \in 1..Len(content) :
             /\ content[i] = token
             /\ \A j \in 1..(i - 1) : content[j] # token
    ELSE 0

\* The length of the run of tokens before the first space.
RECURSIVE WordLen(_)
WordLen(tokens) ==
    IF tokens = << >> \/ Head(tokens) = " " THEN 0 ELSE 1 + WordLen(Tail(tokens))

\* str::split_whitespace: the maximal runs of tokens without a space.
RECURSIVE split_whitespace(_)
split_whitespace(tokens) ==
    IF tokens = << >> THEN << >>
    ELSE IF Head(tokens) = " " THEN split_whitespace(Tail(tokens))
    ELSE << SubSeq(tokens, 1, WordLen(tokens)) >>
             \o split_whitespace(SubSeq(tokens, WordLen(tokens) + 1, Len(tokens)))

\* str::parse::<i32>: a field that is one decimal number.
parse(field) ==
    IF Len(field) = 1 /\ \E n \in Numbers : ToString(n) = field[1]
    THEN Ok(CHOOSE n \in Numbers : ToString(n) = field[1])
    ELSE Err("InvalidData")

\* get_priority on the stat file [readable, content] of the process.
get_priority(stat) ==
    IF ~stat.readable THEN Err("NotFound")
    ELSE LET comm_end == find(stat.content, ")")
         IN  IF comm_end = 0 THEN Err("InvalidData")
             ELSE LET after_comm == SubSeq(stat.content, comm_end + 1, Len(stat.content))
                      fields     == split_whitespace(after_comm)
                  IN  IF Len(fields) > NiceIndex
                      THEN parse(fields[NiceIndex + 1])
                      ELSE Err("InvalidData")

(* ------------------------------ core kinds ----------------------------- *)

\* Strings that are searched for substrings are sequences of characters.
needle ==
    [ pcore |-> << "p", "c", "o", "r", "e" >>,
      ecore |-> << "e", "c", "o", "r", "e" >>,
      core  |-> << "c", "o", "r", "e" >>,
      atom  |-> << "a", "t", "o", "m" >>,
      intel |-> << "i", "n", "t", "e", "l" >> ]

\* str::contains
contains(str, pattern) ==
    \E i \in 1..(Len(str) - Len(pattern) + 1) :
        SubSeq(str, i, i + Len(pattern) - 1) = pattern

\* char::to_lowercase on the upper-case letters the names use.
LowerOf(c) ==
    CASE c = "A" -> "a" [] c = "C" -> "c" [] c = "E" -> "e" [] c = "I" -> "i"
      [] c = "M" -> "m" [] c = "O" -> "o" [] c = "P" -> "p" [] c = "R" -> "r"
      [] c = "T" -> "t" [] OTHER -> c

\* str::to_lowercase
to_lowercase(str) == [ i \in 1..Len(str) |-> LowerOf(str[i]) ]

\* The kind detect_intel_hybrid_cores derives from the name of an entry of
\* /sys/devices/system/cpu/types ("None": the entry is skipped).  In Rust
\* `a || b == false && c` is a || ((b == false) && c).
core_type(name_str) ==
    IF contains(name_str, needle.pcore)
         \/ (contains(name_str, needle.atom) = FALSE /\ contains(name_str, needle.intel))
    THEN IF contains(to_lowercase(name_str), needle.pcore)
              \/ (contains(to_lowercase(name_str), needle.core)
                    /\ ~contains(to_lowercase(name_str), needle.ecore))
         THEN "PCore"
         ELSE "None"
    ELSE IF contains(to_lowercase(name_str), needle.ecore)
              \/ contains(to_lowercase(name_str), needle.atom)
         THEN "ECore"
         ELSE "None"

\* parse_cpu_list on a list given as its comma-separated parts: << n >> is
\* the number n, << a, b >> the range "a-b", << >> a part that does not parse.
parse_cpu_list(list) ==
    UNION { IF Len(list[k]) = 2 THEN list[k][1]..list[k][2]
            ELSE IF Len(list[k]) = 1 THEN { list[k][1] }
            ELSE {} : k \in 1..Len(list) }

\* The loop over the entries of the types directory, in directory order:
\* a later entry overwrites the kind an earlier one gave a core, and cores
\* at or beyond cpu_count are ignored.
RECURSIVE read_dir_loop(_, _)
read_dir_loop(entries, core_types) ==
    IF entries = << >> THEN core_types
    ELSE LET entry == Head(entries)
             ct    == core_type(entry.name)
         IN  read_dir_loop(Tail(entries),
                 IF ct # "None" /\ entry.cpulist.readable
                 THEN [ cpu \in DOMAIN core_types |->
                          IF cpu \in parse_cpu_list(entry.cpulist.parts)
                          THEN ct ELSE core_types[cpu] ]
                 ELSE core_types)

\* detect_intel_hybrid_cores: Some(core_types) is { core_types }, None is {}.
detect_intel_hybrid_cores(sys) ==
    IF ~sys.types.exists THEN {}
    ELSE LET cpu_count  == get_cpu_count(sys.cpuinfo)
             core_types == read_dir_loop(sys.types.entries,
                                         [ cpu \in 0..(cpu_count - 1) |-> "Standard" ])
         IN  IF \E cpu \in DOMAIN core_types : core_types[cpu] # "Standard"
             THEN { core_types }
             ELSE {}

\* The size in KB detect_amd_x3d_cores reads from the text [number, suffix]
\* of cache/index3/size (number -1: not a number): unwrap_or(0).
size_kb(text) ==
    IF text.number < 0 THEN 0
    ELSE IF text.suffix = "M" THEN text.number * 1024
    ELSE text.number

\* cpuinfo.contains("AMD")
contains_AMD(content) ==
    \E k \in 1..Len(content) : content[k] \in { "AMD", "AuthenticAMD" }

\* cache_sizes.keys().max() and .min() of a non-empty map.
max_key(keys) == CHOOSE m \in keys : \A k \in keys : k <= m
min_key(keys) == CHOOSE m \in keys : \A k \in keys : k >= m

\* Mutant: any larger cache counts.
merely_larger(max_size, min_size) == max_size > min_size

\* max_size > min_size * 2
significantly_larger(max_size, min_size) == max_size > min_size * 2

\* detect_amd_x3d_cores: Some(cores) is { cores }, None is {}.
detect_amd_x3d_cores(sys, cpu_count) ==
    IF ~sys.cpuinfo.readable THEN {}
    ELSE IF ~contains_AMD(sys.cpuinfo.content) THEN {}
    ELSE LET sized == { i \in 0..(cpu_count - 1) : i \in DOMAIN sys.l3 /\ sys.l3[i].readable }
             cache_sizes == { size_kb(sys.l3[i]) : i \in sized }
         IN  IF Cardinality(cache_sizes) > 1
                  /\ significantly_larger(max_key(cache_sizes), min_key(cache_sizes))
             THEN { { i \in sized : size_kb(sys.l3[i]) = max_key(cache_sizes) } }
             ELSE {}

\* The l3_cache_kb field of CpuCoreInfo (-1 is None).
l3_cache_kb(sys, i) ==
    IF i \in DOMAIN sys.l3 /\ sys.l3[i].readable /\ sys.l3[i].number >= 0
    THEN size_kb(sys.l3[i])
    ELSE -1

\* Mutant: the cache rule is consulted first.
get_cpu_core_info_cache_first(sys) ==
    LET cpu_count        == get_cpu_count(sys.cpuinfo)
        intel_core_types == detect_intel_hybrid_cores(sys)
        amd_x3d_cores    == detect_amd_x3d_cores(sys, cpu_count)
    IN  [ k \in 1..cpu_count |->
            [ cpu_id      |-> k - 1,
              core_type   |->
                  IF amd_x3d_cores # {}
                  THEN (IF \E x3d \in amd_x3d_cores : (k - 1) \in x3d
                        THEN "X3D" ELSE "Standard")
                  ELSE IF intel_core_types # {}
                  THEN (CHOOSE types \in intel_core_types : TRUE)[k - 1]
                  ELSE "Standard",
              die_id      |-> IF (k - 1) \in DOMAIN sys.die_id THEN sys.die_id[k - 1] ELSE -1,
              l3_cache_kb |-> l3_cache_kb(sys, k - 1) ] ]

\* get_cpu_core_info on the files `sys` of /proc and /sys.
get_cpu_core_info(sys) ==
    LET cpu_count        == get_cpu_count(sys.cpuinfo)
        intel_core_types == detect_intel_hybrid_cores(sys)
        amd_x3d_cores    == detect_amd_x3d_cores(sys, cpu_count)
    IN  [ k \in 1..cpu_count |->
            [ cpu_id      |-> k - 1,
              core_type   |->
                  IF intel_core_types # {}
                  THEN (CHOOSE types \in intel_core_types : TRUE)[k - 1]
                  ELSE IF amd_x3d_cores # {}
                  THEN (IF \E x3d \in amd_x3d_cores : (k - 1) \in x3d
                        THEN "X3D" ELSE "Standard")
                  ELSE "Standard",
              die_id      |-> IF (k - 1) \in DOMAIN sys.die_id THEN sys.die_id[k - 1] ELSE -1,
              l3_cache_kb |-> l3_cache_kb(sys, k - 1) ] ]

(* ------------------------------- state --------------------------------- *)

VARIABLES
    system,           \* SystemMonitor.system: the process table of the last refresh
    process_history,  \* SystemMonitor.process_history: pid -> ProcessHistory
    max_samples,      \* SystemMonitor.max_samples
    last_net_rx,      \* SystemMonitor.last_net_rx
    last_net_tx,      \* SystemMonitor.last_net_tx
    net_rx_rate,      \* SystemMonitor.net_rx_rate
    net_tx_rate,      \* SystemMonitor.net_tx_rate
    gpu_utilization,  \* SystemMonitor.gpu_utilization
    processes,        \* the Vec<ProcessInfo> the last refresh returned
    origin,           \* history variable: pid -> start times of the processes
                      \* the samples of process_history[pid] were taken from
    gc,               \* history variable: the pids whose record the last
                      \* refresh created (gained) and deleted (purged)
    prev_net,         \* history variable: last_net_rx and last_net_tx as the
                      \* last refresh found them (the reading before the latest)
    net_log,          \* history variable: the last three results of
                      \* read_network_totals, latest last (the first reading
                      \* repeated while there are fewer)
    rec,              \* a ProcessHistory driven directly (add_sample, trim_to)
    trace,            \* history variable: the calls made on rec, oldest first
    machine,          \* the machine: its cores, its /proc/cpuinfo, the build
    os,               \* the processes the control calls act on
    calls,            \* history variable: the last two control calls
    stack,            \* the call stack of the GTK main thread: the callbacks
                      \* in progress, innermost last, each at a position
    borrow,           \* the borrow flag of the RefCell<SystemMonitor>:
                      \* 0 unused, -1 mutably borrowed, n > 0 shared borrows
    refreshing,       \* history variable: the refresh calls in progress
    updating,         \* ProcessListView.updating
    built,            \* OcularWindow::build has returned (the timer is installed)
    aborted,          \* a callback panicked
    selected_pid,     \* the selected_pid cell of the main window (0 is None)
    last_selection,   \* history variable: what the last run of the
                      \* selection-changed handler did
    files,            \* the files of /proc and /sys a query reads
    reply,            \* what the query returned: << >> before the call,
                      \* << result >> after it
    pw                \* a process window: the window, its timer source, the
                      \* Option<SourceId> cell, and history of what happened

monitorVars == << system, process_history, max_samples, last_net_rx, last_net_tx,
                  net_rx_rate, net_tx_rate, gpu_utilization, processes, origin, gc,
                  prev_net, net_log >>
recVars == << rec, trace >>
controlVars == << machine, os, calls >>
loopVars == << stack, borrow, refreshing, updating, built, aborted, selected_pid,
              last_selection >>
queryVars == << files, reply >>
windowVars == << pw >>
vars == << monitorVars, recVars, controlVars, loopVars, queryVars, windowVars >>

\* The capacities the history dropdowns offer (30, 60, 150, 300, 900 samples
\* in the code), scaled to 1..MaxCap; the default (60) is the second smallest.
HistoryOptions == 1..MaxCap
DefaultMaxSamples == Min(2, MaxCap)

\* SystemMonitor::new, before any refresh.  The table read by new() is never
\* used (refresh re-reads it first), so it starts empty; the first network
\* reading is drawn from the readings a tick can see.
InitMonitor(NetReadings) ==
    /\ system = EmptyTable
    /\ process_history = EmptyTable
    /\ max_samples = DefaultMaxSamples
    /\ \E net \in NetReadings : last_net_rx = net[1] /\ last_net_tx = net[2]
    /\ net_rx_rate = 0
    /\ net_tx_rate = 0
    /\ gpu_utilization = 0
    /\ processes = << >>
    /\ origin = EmptyTable
    /\ gc = [ gained |-> {}, purged |-> {} ]
    /\ prev_net = << last_net_rx, last_net_tx >>
    /\ net_log = << prev_net, prev_net, prev_net >>

InitRec ==
    /\ rec = ProcessHistoryDefault
    /\ trace = << >>

\* The pid the control calls are aimed at: it exists at the start and is gone
\* once it was killed.
ControlPids == { 1 }

\* /proc/cpuinfo of a machine with n cores: unreadable, or its text with one
\* of the model names.
CpuInfos(n) ==
    { [ readable |-> FALSE, content |-> << >> ] }
      \cup { [ readable |-> TRUE, content |-> CpuInfoText(n, name) ] : name \in ModelNames }

\* A machine: its logical cores, its /proc/cpuinfo, whether kill and taskset
\* are installed, and whether the build checks arithmetic overflow.
Machines ==
    UNION { { [ cores |-> n, build |-> b, programs |-> t, cpuinfo |-> c ] :
                b \in { "debug", "release" }, t \in BOOLEAN, c \in CpuInfos(n) } :
            n \in 1..MaxCores }

\* Before any control call: a machine of Ms, pid 1 owned by the caller or
\* not (Owned), allowed on every core.
InitControl(Ms, Owned) ==
    /\ machine \in Ms
    /\ \E owned \in Owned :
         os = [ p \in { 1 } |-> [ owned |-> owned, stopped |-> FALSE,
                                  affinity |-> 0..machine.cores - 1 ] ]
    /\ calls = << >>

\* The main thread before OcularWindow::build loads the first data.
InitLoop ==
    /\ stack = << >>
    /\ borrow = 0
    /\ refreshing = 0
    /\ updating = FALSE
    /\ built = FALSE
    /\ aborted = FALSE
    /\ selected_pid = 0
    /\ last_selection = [ seen |-> FALSE, during_update |-> FALSE, borrowed |-> FALSE,
                          changed |-> FALSE ]

\* No process window is open.
NoWindow ==
    [ open |-> FALSE, timer |-> FALSE, source_id |-> FALSE, removes |-> 0,
      updates |-> 0, ended_seen |-> FALSE, late_update |-> FALSE ]

\* No query has been made and none will be.
NoFiles == [ query |-> "none" ]

InitQuery(Files) ==
    /\ files \in Files
    /\ reply = << >>
    /\ pw = NoWindow

\* The machine of the specifications that make no control call.
PlainMachine ==
    [ cores |-> 1, build |-> "release", programs |-> TRUE,
      cpuinfo |-> [ readable |-> TRUE, content |-> CpuInfoText(1, << "Generic", "CPU" >>) ] ]

(* ------------------------ SystemMonitor::refresh ----------------------- *)

\* Mutant: u64::wrapping_sub, a decreasing counter gives a huge rate.
wrapping_sub(a, b) == (a - b) % (MaxNet + 1)

\* u64::saturating_sub
saturating_sub(a, b) == IF a >= b THEN a - b ELSE 0

PidsOf(list) == { list[i].pid : i \in 1..Len(list) }

\* for proc in &processes { process_history.entry(pid).or_default().add_sample(..) }
record_samples(history, list, gpu_util, net_rx, net_tx, cap) ==
    [ p \in DOMAIN history \cup PidsOf(list) |->
        IF p \in PidsOf(list)
        THEN LET proc == list[CHOOSE i \in 1..Len(list) : list[i].pid = p]
                 old  == IF p \in DOMAIN history THEN history[p] ELSE ProcessHistoryDefault
             IN  add_sample(old, total_cpu(proc), total_memory(proc), total_disk_read(proc),
                            total_disk_write(proc), total_gpu(proc), gpu_util, net_rx, net_tx, cap)
        ELSE history[p] ]

\* Mutant: the clean-up is left out.
retain_all(history, current_pids) == history

\* process_history.retain(|pid, _| current_pids.contains(pid))
retain(history, current_pids) ==
    [ p \in DOMAIN history \cap current_pids |-> history[p] ]

\* Mutant: a reading below the stored one is not stored.
refresh_keeps_highest(table, ord, net, gpu) ==
    /\ system' = table
    /\ net_rx_rate' = saturating_sub(net[1], last_net_rx)
    /\ net_tx_rate' = saturating_sub(net[2], last_net_tx)
    /\ last_net_rx' = Max(net[1], last_net_rx)
    /\ last_net_tx' = Max(net[2], last_net_tx)
    /\ gpu_utilization' = gpu
    /\ processes' = aggregate(table, ord)
    /\ max_samples' = max_samples
    /\ process_history' =
         retain(record_samples(process_history, processes', gpu_utilization',
                               net_rx_rate', net_tx_rate', max_samples),
                PidsOf(processes'))
    /\ origin' = [ p \in DOMAIN process_history' |->
                     IF p \in PidsOf(processes')
                     THEN pop_front_while(
                              Append(IF p \in DOMAIN origin THEN origin[p] ELSE << >>,
                                     table[p].start),
                              max_samples)
                     ELSE origin[p] ]
    /\ gc' = [ gained |-> DOMAIN process_history' \ DOMAIN process_history,
               purged |-> DOMAIN process_history \ DOMAIN process_history' ]
    /\ prev_net' = << last_net_rx, last_net_tx >>
    /\ net_log' = << net_log[2], net_log[3], net >>

\* One call of refresh that reads `table` from the OS, `net` from
\* /proc/net/dev and `gpu` from NVML, its maps iterated in the order `ord`.
refresh(table, ord, net, gpu) ==
    /\ system' = table
    /\ net_rx_rate' = saturating_sub(net[1], last_net_rx)
    /\ net_tx_rate' = saturating_sub(net[2], last_net_tx)
    /\ last_net_rx' = net[1]
    /\ last_net_tx' = net[2]
    /\ gpu_utilization' = gpu
    /\ processes' = aggregate(table, ord)
    /\ max_samples' = max_samples
    /\ process_history' =
         retain(record_samples(process_history, processes', gpu_utilization',
                               net_rx_rate', net_tx_rate', max_samples),
                PidsOf(processes'))
    /\ origin' = [ p \in DOMAIN process_history' |->
                     IF p \in PidsOf(processes')
                     THEN pop_front_while(
                              Append(IF p \in DOMAIN origin THEN origin[p] ELSE << >>,
                                     table[p].start),
                              max_samples)
                     ELSE origin[p] ]
    /\ gc' = [ gained |-> DOMAIN process_history' \ DOMAIN process_history,
               purged |-> DOMAIN process_history \ DOMAIN process_history' ]
    /\ prev_net' = << last_net_rx, last_net_tx >>
    /\ net_log' = << net_log[2], net_log[3], net >>

\* SystemMonitor::get_history: Some(record) is { record }, None is {}.
get_history(pid) ==
    IF pid \in DOMAIN process_history THEN { process_history[pid] } ELSE {}

(* -------------------- SystemMonitor::set_max_samples ------------------- *)

\* Mutant: the loop over process_history.values_mut() is missing.
set_max_samples_without_trim(n) ==
    /\ max_samples' = n
    /\ UNCHANGED << system, process_history, last_net_rx, last_net_tx, net_rx_rate,
                    net_tx_rate, gpu_utilization, processes, origin, gc, prev_net,
                    net_log >>

set_max_samples(n) ==
    /\ max_samples' = n
    /\ process_history' = [ p \in DOMAIN process_history |-> trim_to(process_history[p], n) ]
    /\ origin' = [ p \in DOMAIN origin |-> pop_front_while(origin[p], n) ]
    /\ UNCHANGED << system, last_net_rx, last_net_tx, net_rx_rate, net_tx_rate,
                    gpu_utilization, processes, gc, prev_net, net_log >>


(* ------------------------- inputs of one tick -------------------------- *)

\* Every process table over Pids whose sample of pid p has a thread-group id
\* in Tgids[p], a start time in Starts and a load level in Loads.
TablesOf(Tgids, Starts, Loads) ==
    UNION { { [ p \in S |-> RawSample(p, a[p][1], a[p][2], a[p][3]) ] :
                a \in { f \in [ S -> (0..MaxPid) \X Starts \X Loads ] :
                          \A p \in S : f[p][1] \in Tgids[p] } } :
            S \in SUBSET Pids }

\* Any thread-group id: unreadable (0), the pid's own, or any other pid's
\* (present or not, a leader or itself a thread).
AnyTgid == [ p \in Pids |-> 0..MaxPid ]

\* Every process leads its own group, but the one with the highest pid, which
\* is a leader in some ticks and a thread of pid 1 in others.
LeaderOrThreadOfFirst == [ p \in Pids |-> IF p = MaxPid THEN { p, 1 } ELSE { p } ]

AggregateTables == TablesOf(AnyTgid, { 1 }, LoadLevels)

TickTables == TablesOf(LeaderOrThreadOfFirst, { 1 }, LoadLevels)

\* A pid keeps its process or passes to one that started later.
StartsAdvance(table) ==
    \A p \in DOMAIN table \cap DOMAIN system : table[p].start >= system[p].start

QuietNet == { << 0, 0 >> }
QuietGpu == { 0 }

(* --------------------------- specifications ---------------------------- *)

\* One refresh on what the OS reports: a table of Tables, a network reading
\* of NetReadings and a GPU reading of GpuReadings.
TickOn(Tables, NetReadings, GpuReadings) ==
    /\ \E table \in Tables :
         /\ StartsAdvance(table)
         /\ \E ord \in IterationOrders(table), net \in NetReadings, gpu \in GpuReadings :
              refresh(table, ord, net, gpu)
    /\ UNCHANGED << recVars, queryVars, windowVars, controlVars, loopVars >>

\* The timer tick of the main window (window.rs:139-148) and the initial
\* data load (window.rs:126-130).
Tick == TickOn(TickTables, QuietNet, QuietGpu)

\* A history dropdown changes (window.rs:78-93, process_window.rs:119-134).
ChangeHistoryDuration ==
    /\ \E n \in HistoryOptions : set_max_samples(n)
    /\ UNCHANGED << recVars, queryVars, windowVars, controlVars, loopVars >>

Init == InitMonitor(QuietNet) /\ InitRec /\ InitControl({ PlainMachine }, { TRUE }) /\ InitLoop /\ InitQuery({ NoFiles })

Next == Tick \/ ChangeHistoryDuration

\* The monitor over any sequence of ticks and capacity changes.
Spec == Init /\ [][Next]_vars

\* The first tick after construction, on any table of AggregateTables.
FirstTick ==
    /\ system = EmptyTable
    /\ TickOn(AggregateTables, QuietNet, QuietGpu)

\* A later tick while the OS reports the same table.
RepeatTick ==
    /\ system # EmptyTable
    /\ TickOn({ system }, QuietNet, QuietGpu)

NextAggregate == FirstTick \/ RepeatTick

\* The aggregation of one table, by the first tick and by its repetitions.
SpecAggregate == Init /\ [][NextAggregate]_vars

\* Ticks over tables of leaders whose pids pass from one process to the next.
ReuseTables == TablesOf([ p \in Pids |-> { p } ], StartTimes, { 0 })

ReuseTick == TickOn(ReuseTables, QuietNet, QuietGpu)

NextReuse == ReuseTick \/ ChangeHistoryDuration

SpecReuse == Init /\ [][NextReuse]_vars

\* The tables that hold at most pid 1, a leader at load level 0.
SingleTables == { t \in ReuseTables : DOMAIN t \subseteq { 1 } /\ \A p \in DOMAIN t : t[p].start = 1 }

\* read_network_totals(): any pair of cumulative counters, so that a counter
\* may grow, stay, or fall (interface reset, wraparound) between two ticks.
NetReadings == (0..MaxNet) \X (0..MaxNet)

\* get_gpu_utilization(): idle or busy.
GpuReadings == { 0, 1 }

NetTick == TickOn(SingleTables, NetReadings, GpuReadings)

InitNet == InitMonitor(NetReadings) /\ InitRec /\ InitControl({ PlainMachine }, { TRUE }) /\ InitLoop /\ InitQuery({ NoFiles })

NextNet == NetTick

\* Ticks under every sequence of network and GPU readings.
SpecNet == InitNet /\ [][NextNet]_vars

(* ------------------------- process control calls ----------------------- *)

\* The log keeps the last two calls.
Logged(entry) ==
    IF Len(calls) < 2 THEN Append(calls, entry) ELSE << calls[2], entry >>

Crashed == calls # << >> /\ calls[Len(calls)].result.kind = "panic"

\* A context-menu or process-window action sends a signal
\* (context_menu.rs:119-134).
SendSignal ==
    /\ ~Crashed
    /\ \E pid \in ControlPids, signal \in Signal :
         LET spawn == SpawnOutcome(machine.programs)
             out   == send_signal(pid, signal, spawn, os)
         IN  /\ os' = out.os
             /\ calls' = Logged([ op |-> "send_signal", pid |-> pid, arg |-> << signal >>,
                                  result |-> out.result, commands |-> out.commands,
                                  before |-> os ])
    /\ UNCHANGED << machine, monitorVars, recVars, queryVars, windowVars, loopVars >>

\* End Process / Force Kill (process_window.rs:165-192).
KillProcess ==
    /\ ~Crashed
    /\ \E pid \in ControlPids, force \in BOOLEAN :
         LET spawn == SpawnOutcome(machine.programs)
             out   == kill_process(pid, force, spawn, os)
         IN  /\ os' = out.os
             /\ calls' = Logged([ op |-> "kill_process", pid |-> pid, arg |-> << force >>,
                                  result |-> out.result, commands |-> out.commands,
                                  before |-> os ])
    /\ UNCHANGED << machine, monitorVars, recVars, queryVars, windowVars, loopVars >>

\* The lists of core indices a caller can pass: any cores of the machine, in
\* ascending order (the checked boxes of the dialog), the empty list included.
CpuLists ==
    { l \in UNION { [ 1..n -> 0..machine.cores - 1 ] : n \in 0..machine.cores } :
        \A i \in 1..Len(l) - 1 : l[i] < l[i + 1] }

SetCpuAffinity ==
    /\ ~Crashed
    /\ \E pid \in ControlPids, cpus \in CpuLists :
         LET spawn == SpawnOutcome(machine.programs)
             out   == set_cpu_affinity(pid, cpus, spawn, os, machine)
         IN  /\ os' = out.os
             /\ calls' = Logged([ op |-> "set_cpu_affinity", pid |-> pid, arg |-> cpus,
                                  result |-> out.result, commands |-> out.commands,
                                  before |-> os ])
    /\ UNCHANGED << machine, monitorVars, recVars, queryVars, windowVars, loopVars >>

GetCpuAffinity ==
    /\ ~Crashed
    /\ \E pid \in ControlPids :
         LET spawn == SpawnOutcome(machine.programs)
             out   == get_cpu_affinity(pid, spawn, os, machine)
         IN  /\ os' = out.os
             /\ calls' = Logged([ op |-> "get_cpu_affinity", pid |-> pid, arg |-> << >>,
                                  result |-> out.result, commands |-> out.commands,
                                  before |-> os ])
    /\ UNCHANGED << machine, monitorVars, recVars, queryVars, windowVars, loopVars >>

InitCalls == InitMonitor(QuietNet) /\ InitRec /\ InitControl(Machines, BOOLEAN) /\ InitLoop /\ InitQuery({ NoFiles })

NextControl == SendSignal \/ KillProcess \/ SetCpuAffinity \/ GetCpuAffinity

\* Any sequence of control calls on any machine.
SpecControl == InitCalls /\ [][NextControl]_vars

(* ------------------------------- queries ------------------------------- *)

\* What get_priority(1) can find: the stat file of a process with any of the
\* names (plain, with a space, in parentheses as systemd's "(sd-pam)", with
\* a closing and with an opening parenthesis inside) and nice values, or no
\* file (the process is gone).
PriorityFiles ==
    { [ query |-> "priority", comm |-> comm, nice |-> nice,
        stat  |-> [ readable |-> r, content |-> StatContent(1, comm, nice) ] ] :
      comm \in { << "a" >>, << "a", " ", "b" >>, << "(", "sd-pam", ")" >>,
                 << "a", ")", " ", "b" >>, << "a", "(", "b" >> },
      nice \in { -5, 0, 19 }, r \in BOOLEAN }

\* Names of entries of /sys/devices/system/cpu/types.
TypeNames ==
    { << "i", "n", "t", "e", "l", "_", "c", "o", "r", "e" >>,
      << "i", "n", "t", "e", "l", "_", "a", "t", "o", "m" >>,
      << "i", "n", "t", "e", "l", "_", "p", "c", "o", "r", "e" >>,
      << "i", "n", "t", "e", "l", "_", "e", "c", "o", "r", "e" >>,
      << "c", "o", "r", "e" >>,
      << "A", "T", "O", "M" >>,
      << "a", "r", "m", "_", "b", "i", "g" >> }

\* Contents of a cpulist file: unreadable, "0", "1-2", and "0,,N" with N the
\* number of cores (one part that does not parse, one core out of range).
CpuListFiles ==
    { [ readable |-> FALSE, parts |-> << >> ],
      [ readable |-> TRUE, parts |-> << << 0 >> >> ],
      [ readable |-> TRUE, parts |-> << << 1, 2 >> >> ],
      [ readable |-> TRUE, parts |-> << << 0 >>, << >>, << MaxCores >> >> ] }

TypeEntries == [ name : TypeNames, cpulist : CpuListFiles ]

\* The types directory when it exists: up to two entries in any order.
TypesDirs ==
    { [ exists |-> TRUE, entries |-> es ] :
      es \in { << >> } \cup { << e >> : e \in TypeEntries }
                       \cup { << d, e >> : d, e \in TypeEntries } }

\* Contents of cache/index3/size: missing, "1K", "2K", "3K", "1M", and text
\* that is not a size.
L3Files ==
    { [ readable |-> FALSE, number |-> 0, suffix |-> "" ],
      [ readable |-> TRUE, number |-> 1, suffix |-> "K" ],
      [ readable |-> TRUE, number |-> 2, suffix |-> "K" ],
      [ readable |-> TRUE, number |-> 3, suffix |-> "K" ],
      [ readable |-> TRUE, number |-> 1, suffix |-> "M" ],
      [ readable |-> TRUE, number |-> -1, suffix |-> "" ] }

CoreIds == 0..(MaxCores - 1)

\* Two cache layouts: no L3 files, and core 0 with three times the cache of
\* the other cores.
PlainL3s ==
    { [ i \in CoreIds |-> [ readable |-> FALSE, number |-> 0, suffix |-> "" ] ],
      [ i \in CoreIds |-> [ readable |-> TRUE, number |-> IF i = 0 THEN 3 ELSE 1,
                            suffix |-> "K" ] ] }

\* A few types directories: missing, empty, one entry the name test skips,
\* one entry that makes cores 1 and 2 performance cores.
PlainTypes ==
    { [ exists |-> FALSE, entries |-> << >> ],
      [ exists |-> TRUE, entries |-> << >> ],
      [ exists |-> TRUE,
        entries |-> << [ name |-> << "a", "r", "m", "_", "b", "i", "g" >>,
                         cpulist |-> [ readable |-> TRUE, parts |-> << << 0 >> >> ] ] >> ],
      [ exists |-> TRUE,
        entries |-> << [ name |-> << "i", "n", "t", "e", "l", "_", "c", "o", "r", "e" >>,
                         cpulist |-> [ readable |-> TRUE, parts |-> << << 1, 2 >> >> ] ] >> ] }

\* /proc/cpuinfo of a machine with MaxCores cores, of either vendor.
VendorCpuInfos ==
    { [ readable |-> TRUE, content |-> CpuInfoText(MaxCores, name) ] :
      name \in { << "AMD", "Ryzen" >>, << "Generic", "CPU" >> } }

SysFiles(Types, L3s) ==
    { [ query |-> "cores",
        sys   |-> [ cpuinfo |-> c, types |-> t, l3 |-> l,
                    die_id |-> [ i \in CoreIds |-> 0 ] ] ] :
      c \in VendorCpuInfos, t \in Types, l \in L3s }

\* What get_cpu_core_info can find: every types directory with two cache
\* layouts, and every cache layout with a few types directories.
CoreFiles == SysFiles(TypesDirs, PlainL3s) \cup SysFiles(PlainTypes, [ CoreIds -> L3Files ])

GetPriority ==
    /\ files.query = "priority"
    /\ reply = << >>
    /\ reply' = << get_priority(files.stat) >>
    /\ UNCHANGED << files, monitorVars, recVars, controlVars, loopVars, windowVars >>

GetCpuCoreInfo ==
    /\ files.query = "cores"
    /\ reply = << >>
    /\ reply' = << get_cpu_core_info(files.sys) >>
    /\ UNCHANGED << files, monitorVars, recVars, controlVars, loopVars, windowVars >>

InitQueries ==
    /\ InitMonitor(QuietNet) /\ InitRec /\ InitControl({ PlainMachine }, { TRUE }) /\ InitLoop
    /\ InitQuery(PriorityFiles \cup CoreFiles)

NextQuery == GetPriority \/ GetCpuCoreInfo

\* One query on any of the files.
SpecQuery == InitQueries /\ [][NextQuery]_vars

(* --------------------------- a process window -------------------------- *)

\* The process window of pid 1 as open_process_window leaves it: presented,
\* the timer installed and its id stored in the cell.  removes counts the
\* calls of SourceId::remove, updates the detail-view updates of the timer
\* (up to MaxUpdates); ended_seen: a tick has found the process gone;
\* late_update: the detail view was updated after that.
OpenedWindow ==
    [ open |-> TRUE, timer |-> TRUE, source_id |-> TRUE, removes |-> 0,
      updates |-> 0, ended_seen |-> FALSE, late_update |-> FALSE ]

\* is_process_running: Path::new("/proc/<pid>").exists()
is_process_running(pid, os_procs) == pid \in DOMAIN os_procs

\* Mutant: the id is read and left in the cell.
peek(w) == w

\* source_id.borrow_mut().take(): the cell is None afterwards.
take(w) == [ w EXCEPT !.source_id = FALSE ]

\* if let Some(id) = source_id.borrow_mut().take() { id.remove(); }, the
\* body of the close-request handler and a step of Force Kill.
remove_source(w) ==
    IF w.source_id
    THEN [ take(w) EXCEPT !.timer = FALSE, !.removes = @ + 1 ]
    ELSE w

\* win.close(): close-request is emitted and handled before close returns,
\* and the handler lets the window be destroyed.
close(w) == [ remove_source(w) EXCEPT !.open = FALSE ]

\* The closure of the window's timer: Break if the window is gone; if the
\* process is gone, win.close() and Break; otherwise a detail-view update.
timer_closure(w, os_procs) ==
    IF ~w.open THEN [ w EXCEPT !.timer = FALSE ]
    ELSE IF ~is_process_running(1, os_procs)
    THEN [ close(w) EXCEPT !.timer = FALSE, !.ended_seen = TRUE ]
    ELSE [ w EXCEPT !.updates = Min(@ + 1, MaxUpdates),
                    !.late_update = @ \/ w.ended_seen ]

\* The timer of the window fires.
WindowTimer ==
    /\ pw.timer
    /\ pw' = timer_closure(pw, os)
    /\ UNCHANGED << monitorVars, recVars, controlVars, loopVars, queryVars >>

\* End Process: SIGTERM; the window stays until the timer notices.
EndProcess ==
    /\ pw.open
    /\ os' = kill_process(1, FALSE, SpawnOutcome(machine.programs), os).os
    /\ UNCHANGED << pw, machine, calls, monitorVars, recVars, loopVars, queryVars >>

\* Force Kill: SIGKILL; on success the timer is removed and the window
\* closed at once, on failure an error dialog is shown.
ForceKill ==
    /\ pw.open
    /\ LET out == kill_process(1, TRUE, SpawnOutcome(machine.programs), os)
       IN  /\ os' = out.os
           /\ pw' = IF out.result.ok THEN close(remove_source(pw)) ELSE pw
    /\ UNCHANGED << machine, calls, monitorVars, recVars, loopVars, queryVars >>

\* The user closes the window.
CloseWindow ==
    /\ pw.open
    /\ pw' = close(pw)
    /\ UNCHANGED << monitorVars, recVars, controlVars, loopVars, queryVars >>

\* The process exits by itself.
ProcessExits ==
    /\ 1 \in DOMAIN os
    /\ os' = Remove(os, 1)
    /\ UNCHANGED << pw, machine, calls, monitorVars, recVars, loopVars, queryVars >>

\* The pid is given to a new process.
PidReused ==
    /\ 1 \notin DOMAIN os
    /\ \E owned \in BOOLEAN :
         os' = [ p \in { 1 } |-> [ owned |-> owned, stopped |-> FALSE,
                                  affinity |-> 0..machine.cores - 1 ] ]
    /\ UNCHANGED << pw, machine, calls, monitorVars, recVars, loopVars, queryVars >>

InitWindow ==
    /\ InitMonitor(QuietNet) /\ InitRec /\ InitControl({ [ PlainMachine EXCEPT !.programs = t ] : t \in BOOLEAN }, BOOLEAN) /\ InitLoop
    /\ files = NoFiles /\ reply = << >>
    /\ pw = OpenedWindow

NextWindow ==
    \/ WindowTimer
    \/ EndProcess
    \/ ForceKill
    \/ CloseWindow
    \/ ProcessExits
    \/ PidReused

\* One process window from its opening on.
SpecWindow == InitWindow /\ [][NextWindow]_vars

(* --------------------------- the GTK main loop ------------------------- *)

\* The tables of leaders over the pids 1 and 2, at every load level.
LoopTables ==
    { t \in TablesOf([ p \in Pids |-> { p } ], { 1 }, LoadLevels) : DOMAIN t \subseteq { 1, 2 } }

\* Mutant: the callbacks run on threads of their own, at any time.
MainLoopAnyTime == ~aborted

\* The main loop dispatches a source or an input event only between
\* callbacks: glib::timeout_add_local and the signal handlers run on the
\* main thread, one at a time, each to completion.
MainLoopIdle == ~aborted /\ stack = << >>

Top == stack[Len(stack)]

Push(fn, pc) == Append(stack, [ fn |-> fn, pc |-> pc ])

Pop == SubSeq(stack, 1, Len(stack) - 1)

Goto(pc) == [ stack EXCEPT ![Len(stack)].pc = pc ]

\* A panic (BorrowError, BorrowMutError) inside a callback ends the program.
Abort ==
    /\ aborted' = TRUE
    /\ UNCHANGED << stack, borrow, refreshing, updating, built, selected_pid,
                    last_selection, monitorVars >>

\* OcularWindow::build reaches the initial data load (window.rs:125-130).
BuildWindow ==
    /\ MainLoopIdle
    /\ ~built
    /\ stack' = Push("build", "borrow_mut")
    /\ UNCHANGED << borrow, refreshing, updating, built, aborted, selected_pid,
                    last_selection, monitorVars, recVars, queryVars, windowVars,
                    controlVars >>

\* The 2-second timer of the main window fires (window.rs:139).
TimerFire ==
    /\ MainLoopIdle
    /\ built
    /\ stack' = Push("timer", "borrow_mut")
    /\ UNCHANGED << borrow, refreshing, updating, built, aborted, selected_pid,
                    last_selection, monitorVars, recVars, queryVars, windowVars,
                    controlVars >>

\* let mut mon = monitor.borrow_mut(); mon.refresh() is entered.
BeginRefresh ==
    /\ ~aborted
    /\ stack # << >> /\ Top.pc = "borrow_mut"
    /\ IF borrow = 0
       THEN /\ borrow' = -1
            /\ refreshing' = refreshing + 1
            /\ stack' = Goto("refresh")
            /\ UNCHANGED << updating, built, aborted, selected_pid, last_selection,
                            monitorVars >>
       ELSE Abort
    /\ UNCHANGED << recVars, queryVars, windowVars, controlVars >>

\* mon.refresh() returns its list; process_list.update(&processes) sets the
\* updating flag and starts to repopulate the store.
FinishRefresh ==
    /\ ~aborted
    /\ stack # << >> /\ Top.pc = "refresh"
    /\ \E table \in LoopTables :
         \E ord \in IterationOrders(table), net \in QuietNet, gpu \in QuietGpu :
            refresh(table, ord, net, gpu)
    /\ refreshing' = refreshing - 1
    /\ updating' = TRUE
    /\ stack' = Goto("update")
    /\ UNCHANGED << borrow, built, aborted, selected_pid, last_selection, recVars,
                    queryVars, windowVars, controlVars >>

\* process_list.update clears the flag and returns.  The initial load ends
\* there (its borrow is dropped and build goes on to install the timer); the
\* timer closure goes on with the borrow still held.
FinishUpdate ==
    /\ ~aborted
    /\ stack # << >> /\ Top.pc = "update"
    /\ updating' = FALSE
    /\ IF Top.fn = "build"
       THEN /\ borrow' = 0
            /\ built' = TRUE
            /\ stack' = Pop
       ELSE /\ stack' = Goto("detail")
            /\ UNCHANGED << borrow, built >>
    /\ UNCHANGED << refreshing, aborted, selected_pid, last_selection, monitorVars,
                    recVars, queryVars, windowVars, controlVars >>

\* The rest of the timer closure (window.rs:150-166): the detail view is
\* updated from the same borrow if the selected process is in the list, the
\* selection is dropped if it is not, and the closure returns: the borrow ends.
UpdateDetail ==
    /\ ~aborted
    /\ stack # << >> /\ Top.pc = "detail"
    /\ selected_pid' = IF selected_pid \in PidsOf(processes) THEN selected_pid ELSE 0
    /\ borrow' = 0
    /\ stack' = Pop
    /\ UNCHANGED << refreshing, updating, built, aborted, last_selection, monitorVars,
                    recVars, queryVars, windowVars, controlVars >>

\* Mutant: the handler does not look at the flag.
skip_never == FALSE

\* if *updating_flag.borrow() { return; }
skip_programmatic_update == updating

\* selection-changed (window.rs:100-123): emitted for a click between
\* callbacks, and by the store changes of process_list.update, with any row
\* or none selected.  With the updating flag set the handler returns at
\* once; otherwise it stores the selected pid and, for a row, borrows the
\* monitor for get_history (a panic while it is mutably borrowed).
SelectionChanged ==
    /\ \/ MainLoopIdle /\ built
       \/ ~aborted /\ stack # << >> /\ Top.pc = "update"
    /\ \E item \in PidsOf(processes) \cup { 0 } :
         IF skip_programmatic_update
         THEN /\ last_selection' = [ seen |-> TRUE, during_update |-> updating,
                                     borrowed |-> FALSE, changed |-> FALSE ]
              /\ UNCHANGED << aborted, selected_pid >>
         ELSE /\ selected_pid' = item
              /\ aborted' = (item # 0 /\ borrow < 0)
              /\ last_selection' = [ seen |-> TRUE, during_update |-> updating,
                                     borrowed |-> item # 0,
                                     changed |-> item # selected_pid ]
    /\ UNCHANGED << stack, borrow, refreshing, updating, built, monitorVars, recVars,
                    queryVars, windowVars, controlVars >>

\* A history dropdown of the main window or of a process window changes
\* (window.rs:78-93, process_window.rs:117-134): borrow_mut, set_max_samples.
HistoryDropdown ==
    /\ MainLoopIdle
    /\ built
    /\ IF borrow = 0
       THEN /\ \E n \in HistoryOptions : set_max_samples(n)
            /\ UNCHANGED loopVars
       ELSE Abort
    /\ UNCHANGED << recVars, queryVars, windowVars, controlVars >>

\* The timer of a process window fires (process_window.rs:140-160): borrow,
\* get_history, release.
ProcessWindowTick ==
    /\ MainLoopIdle
    /\ built
    /\ IF borrow >= 0
       THEN UNCHANGED << loopVars, monitorVars >>
       ELSE Abort
    /\ UNCHANGED << recVars, queryVars, windowVars, controlVars >>

NextLoop ==
    \/ BuildWindow
    \/ TimerFire
    \/ BeginRefresh
    \/ FinishRefresh
    \/ FinishUpdate
    \/ UpdateDetail
    \/ SelectionChanged
    \/ HistoryDropdown
    \/ ProcessWindowTick

\* The callbacks that share the monitor, as the main loop runs them.
SpecLoop == Init /\ [][NextLoop]_vars

(* ------------------- a ProcessHistory driven directly ------------------ *)

\* The sample tuple number v: one distinct value per metric.
SampleTuple(v) ==
    [ cpu_history        |-> v,
      memory_history     |-> 10 + v,
      disk_read_history  |-> 20 + v,
      disk_write_history |-> 30 + v,
      gpu_mem_history    |-> 40 + v,
      gpu_util_history   |-> 50 + v,
      net_rx_history     |-> 60 + v,
      net_tx_history     |-> 70 + v ]

\* Enough calls on rec to fill a buffer of the largest capacity and add one more.
MaxCalls == MaxCap + 1

\* rec.add_sample(.., cap) with the sample tuple number v.
RecAddSample ==
    /\ Len(trace) < MaxCalls
    /\ \E v \in 1..MaxVal, cap \in 0..MaxCap :
         LET s == SampleTuple(v)
         IN  /\ rec' = add_sample(rec, s.cpu_history, s.memory_history, s.disk_read_history,
                                  s.disk_write_history, s.gpu_mem_history, s.gpu_util_history,
                                  s.net_rx_history, s.net_tx_history, cap)
             /\ trace' = Append(trace, [ op |-> "add_sample", cap |-> cap,
                                         sample |-> s, before |-> rec ])
    /\ UNCHANGED << monitorVars, controlVars, loopVars, queryVars, windowVars >>

\* rec.trim_to(cap)
RecTrimTo ==
    /\ Len(trace) < MaxCalls
    /\ \E cap \in 0..MaxCap :
         /\ rec' = trim_to(rec, cap)
         /\ trace' = Append(trace, [ op |-> "trim_to", cap |-> cap,
                                     sample |-> SampleTuple(0), before |-> rec ])
    /\ UNCHANGED << monitorVars, controlVars, loopVars, queryVars, windowVars >>

NextHistory == RecAddSample \/ RecTrimTo

\* Any sequence of at most MaxCalls calls on one ProcessHistory.
SpecHistory == Init /\ [][NextHistory]_vars

(* ------------------------------- claims -------------------------------- *)

LastCall == trace[Len(trace)]

\* C4: after add_sample with capacity c, every metric buffer has length
\* min(previous length + 1, c), whatever the previous length and c >= 0.
C4_AddSampleLength ==
    (trace # << >> /\ LastCall.op = "add_sample") =>
        \A b \in Buffers : Len(rec[b]) = Min(Len(LastCall.before[b]) + 1, LastCall.cap)

\* C4 witness: add_sample has run with a capacity c > 0 on a record that was
\* already longer than c (one pop is not enough).
C4_Witness ==
    /\ trace # << >>
    /\ LastCall.op = "add_sample"
    /\ LastCall.cap > 0
    /\ Len(LastCall.before.cpu_history) > LastCall.cap
    /\ Len(rec.cpu_history) = LastCall.cap

AllAddSampleWith(n) ==
    \A i \in 1..Len(trace) : trace[i].op = "add_sample" /\ trace[i].cap = n

\* C5: from an empty record, N add_sample calls with capacity N leave every
\* buffer with length N; one more call leaves the length N, and the buffers
\* hold the N most recent samples in arrival order (the oldest is dropped).
C5_FillThenDropOldest ==
    \A n \in 0..MaxCap :
        AllAddSampleWith(n) =>
            /\ Len(trace) = n => \A b \in Buffers : Len(rec[b]) = n
            /\ Len(trace) = n + 1 =>
                 \A b \in Buffers : rec[b] = [ i \in 1..n |-> trace[i + 1].sample[b] ]

\* C5 witness: MaxCap + 1 calls with capacity MaxCap, the dropped sample
\* different from the one that follows it.
C5_Witness ==
    /\ Len(trace) = MaxCap + 1
    /\ AllAddSampleWith(MaxCap)
    /\ trace[1].sample # trace[2].sample
    /\ Len(rec.cpu_history) = MaxCap

RECURSIVE SumOver(_, _)
SumOver(S, f) ==
    IF S = {} THEN 0
    ELSE LET x == CHOOSE y \in S : TRUE IN f[x] + SumOver(S \ { x }, f)

\* The samples of `table` that name pid p as their thread group, p excluded.
GroupMembers(table, p) == { q \in DOMAIN table : q # p /\ table[q].tgid = p }

\* The CPU of the group led by p, summed over the raw samples.
GroupCpu(table, p) ==
    table[p].cpu_percent
      + SumOver(GroupMembers(table, p), [ q \in DOMAIN table |-> table[q].cpu_percent ])

ChildPids(e) == { e.children[i].pid : i \in 1..Len(e.children) }

\* C1: a tick returns at most TopN (150 in the code) entities, ordered by
\* total CPU descending, and the cut follows the sort: no group leader left
\* out has a total CPU strictly greater than a returned entity's.
C1_TopNSortedThenCut ==
    /\ Len(processes) <= TopN
    /\ \A i \in 1..Len(processes) - 1 :
         total_cpu(processes[i]) >= total_cpu(processes[i + 1])
    /\ \A p \in LeaderPids(system) \ PidsOf(processes) :
         \A i \in 1..Len(processes) : GroupCpu(system, p) <= total_cpu(processes[i])

\* C1 witness: more leaders than TopN, the list is full, and a leader with
\* a strictly smaller total than every returned entity was cut.
C1_Witness ==
    /\ Cardinality(LeaderPids(system)) > TopN
    /\ Len(processes) = TopN
    /\ \E p \in LeaderPids(system) \ PidsOf(processes) :
         GroupCpu(system, p) < total_cpu(processes[TopN])

\* C2: after every tick the history holds a record for exactly the pids of
\* the returned entities; get_history(pid) is Some iff pid was returned.
C2_HistoryKeysAreReturnedPids ==
    /\ DOMAIN process_history = PidsOf(processes)
    /\ \A pid \in Pids : get_history(pid) # {} <=> pid \in PidsOf(processes)

\* C2 witness: the last tick created a record, deleted another one, and
\* kept a third pid out of the history that is a leader but was cut.
C2_Witness ==
    /\ gc.gained # {}
    /\ gc.purged # {}
    /\ LeaderPids(system) \ DOMAIN process_history # {}
    /\ \A pid \in gc.gained : get_history(pid) # {}
    /\ \A pid \in gc.purged : get_history(pid) = {}

\* C3 (as claimed): the record of a pid holds no sample that was taken from
\* an earlier process under that pid, i.e. every sample in the record comes
\* from the process that holds the pid now.
C3_NoSampleOfEarlierProcess ==
    \A pid \in DOMAIN process_history :
        \A i \in 1..Len(origin[pid]) : origin[pid][i] = system[pid].start

\* C6: all eight metric buffers of a history record have the same length.
C6_BuffersSameLength ==
    \A pid \in DOMAIN process_history :
        \A a, b \in Buffers : Len(process_history[pid][a]) = Len(process_history[pid][b])

\* C6 witness: a record that the last tick did not create is full at a
\* capacity below the default, next to a record the last tick created.
C6_Witness ==
    /\ max_samples < DefaultMaxSamples
    /\ \E pid \in DOMAIN process_history \ gc.gained :
         Len(process_history[pid].net_tx_history) = max_samples
    /\ gc.gained # {}

\* C7: a sample whose thread-group id differs from its pid is a member of
\* the entity led by that id, and the entity's child_count is the number of
\* such samples in the tick.
C7_MembersAttachedToLeader ==
    \A i \in 1..Len(processes) :
        LET e == processes[i]
        IN  /\ ChildPids(e) = GroupMembers(system, e.pid)
            /\ child_count(e) = Cardinality(GroupMembers(system, e.pid))
            /\ \A j \in 1..Len(e.children) :
                 e.children[j] = ProcessInfoOf(system[e.children[j].pid])
            /\ e.is_group <=> GroupMembers(system, e.pid) # {}

\* C7 witness: pid 1 leads (Tgid 1), pid 2 has Tgid 1, and the entity led by
\* pid 1 is returned with pid 2 as its single member.
C7_Witness ==
    /\ 1 \in DOMAIN system /\ system[1].tgid = 1
    /\ 2 \in DOMAIN system /\ system[2].tgid = 1
    /\ \E i \in 1..Len(processes) :
         /\ processes[i].pid = 1
         /\ child_count(processes[i]) = 1
         /\ processes[i].children[1].pid = 2

\* The threads whose group has no leader in the table.
Orphans(table) == { q \in ThreadPids(table) : table[q].tgid \notin LeaderPids(table) }

\* C8: a member whose leader is not in the tick is dropped: it is neither an
\* entity nor a member of one, and the tick still returns its list (every
\* leader, up to the cut).
C8_OrphanDropped ==
    /\ \A q \in Orphans(system) :
         /\ q \notin PidsOf(processes)
         /\ \A i \in 1..Len(processes) : q \notin ChildPids(processes[i])
    /\ Len(processes) = Min(TopN, Cardinality(LeaderPids(system)))

\* C8 witness: a thread whose leader's pid is not in the table at all, in a
\* tick that returned entities.
C8_Witness ==
    /\ \E q \in ThreadPids(system) : system[q].tgid \notin DOMAIN system
    /\ processes # << >>

\* C9: in every returned entity each member's thread-group id is the
\* entity's pid and each member's pid is not, members have no members, and
\* no raw sample occurs twice among the entities and their members.
C9_EntityWellFormed ==
    /\ \A i \in 1..Len(processes) :
         \A j \in 1..Len(processes[i].children) :
            LET m == processes[i].children[j]
            IN  /\ m.pid \in DOMAIN system
                /\ system[m.pid].tgid = processes[i].pid
                /\ m.pid # processes[i].pid
                /\ m.children = << >>
                /\ \A k \in 1..Len(processes[i].children) :
                     processes[i].children[k].pid = m.pid => k = j
    /\ \A i, k \in 1..Len(processes) :
         /\ processes[i].pid = processes[k].pid => i = k
         /\ processes[i].pid \notin ChildPids(processes[k])
         /\ i # k => ChildPids(processes[i]) \cap ChildPids(processes[k]) = {}

\* C9 witness: two entities are returned, one of them with a member.
C9_Witness ==
    /\ Len(processes) >= 2
    /\ \E i \in 1..Len(processes) : processes[i].children # << >>

\* C10 (as claimed): the returned list is a function of the tick's input: a
\* tick on the same table returns the same list, in the same order.
C10_SameInputSameList ==
    [][system' = system => processes' = processes]_vars

Last(buf) == buf[Len(buf)]

\* C11: the total memory of an entity is its leader's own memory, whatever
\* its members hold, and that value is the memory sample the tick records.
C11_TotalMemoryIsLeaders ==
    \A i \in 1..Len(processes) :
        LET e == processes[i]
        IN  /\ total_memory(e) = system[e.pid].memory_bytes
            /\ Last(process_history[e.pid].memory_history) = system[e.pid].memory_bytes

\* C11 witness: a returned entity with a member that holds memory.
C11_Witness ==
    \E i \in 1..Len(processes) :
        /\ child_count(processes[i]) >= 1
        /\ processes[i].children[1].memory_bytes > 0
        /\ total_memory(processes[i]) = processes[i].memory_bytes

\* The read plus written bytes of the raw sample of pid q.
RawDiskIo(table) == [ q \in DOMAIN table |-> table[q].disk_read_bytes + table[q].disk_write_bytes ]

\* C12: the total disk I/O of an entity with at least one member is the
\* leader's read plus written bytes plus the sum of its members' read plus
\* written bytes.
C12_TotalDiskIoSumsMembers ==
    \A i \in 1..Len(processes) :
        LET e == processes[i]
        IN  child_count(e) >= 1 =>
                total_disk_io(e) =
                    RawDiskIo(system)[e.pid] + SumOver(GroupMembers(system, e.pid), RawDiskIo(system))

\* C12 witness: an entity whose leader and whose two members all did disk I/O.
C12_Witness ==
    \E i \in 1..Len(processes) :
        /\ child_count(processes[i]) = 2
        /\ processes[i].disk_write_bytes > 0
        /\ \A j \in 1..2 : processes[i].children[j].disk_write_bytes > 0
        /\ total_disk_io(processes[i]) > processes[i].disk_read_bytes + processes[i].disk_write_bytes

\* C15: a capacity change adds no sample: after trim_to(n) a buffer that was
\* longer than n holds its n newest samples in their order, and a buffer of
\* length at most n is unchanged (also when n is above the old capacity).
C15_TrimKeepsNewest ==
    (trace # << >> /\ LastCall.op = "trim_to") =>
        \A b \in Buffers :
            LET old == LastCall.before[b]
                n   == LastCall.cap
            IN  IF Len(old) > n
                THEN rec[b] = SubSeq(old, Len(old) - n + 1, Len(old))
                ELSE rec[b] = old

\* C15 witness: trim_to(n) with n > 0 on buffers longer than n whose oldest
\* sample differs from the newest.
C15_Witness ==
    /\ trace # << >>
    /\ LastCall.op = "trim_to"
    /\ LastCall.cap > 0
    /\ Len(LastCall.before.cpu_history) > LastCall.cap
    /\ Head(LastCall.before.cpu_history) # Last(LastCall.before.cpu_history)
    /\ Len(rec.cpu_history) = LastCall.cap

\* The table with every unreadable thread-group id replaced by the sample's
\* own pid.
ReadAsOwnLeader(table) ==
    [ p \in DOMAIN table |-> IF table[p].tgid = 0 THEN [ table[p] EXCEPT !.tgid = p ] ELSE table[p] ]

\* C20: a sample whose thread-group id cannot be read or parsed is treated as
\* its own leader and disturbs nothing else: the tick returns a list that it
\* can return for the same table with that id read as the sample's own pid.
C20_UnreadableTgidIsOwnLeader ==
    system # EmptyTable =>
        \E ord \in IterationOrders(ReadAsOwnLeader(system)) :
            processes = aggregate(ReadAsOwnLeader(system), ord)

\* C20 witness: pid 1 has an unreadable thread-group id, pid 2 is a thread
\* of pid 1 and pid 3 leads itself; pid 1 is returned with member 2.
C20_Witness ==
    /\ DOMAIN system = Pids
    /\ system[1].tgid = 0 /\ system[2].tgid = 1 /\ system[3].tgid = 3
    /\ \E i \in 1..Len(processes) :
         processes[i].pid = 1 /\ ChildPids(processes[i]) = { 2 }


\* C13: the rate of a tick is the current cumulative reading minus the
\* previous one, and 0 when the counter fell: never negative, never a
\* wrapped value, for rx and for tx; it is the rate the tick records.
C13_RateSaturates ==
    /\ net_rx_rate = (IF last_net_rx >= prev_net[1] THEN last_net_rx - prev_net[1] ELSE 0)
    /\ net_tx_rate = (IF last_net_tx >= prev_net[2] THEN last_net_tx - prev_net[2] ELSE 0)
    /\ \A pid \in DOMAIN process_history :
         /\ Last(process_history[pid].net_rx_history) = net_rx_rate
         /\ Last(process_history[pid].net_tx_history) = net_tx_rate

\* C13 witness: both counters fell between the last two readings, both
\* rates are 0, and the tick recorded them for a process.
C13_Witness ==
    /\ prev_net[1] > last_net_rx /\ net_rx_rate = 0
    /\ prev_net[2] > last_net_tx /\ net_tx_rate = 0
    /\ \E pid \in DOMAIN process_history : Last(process_history[pid].net_rx_history) = 0


LastControl == calls[Len(calls)]

\* One entry per core, entry i true exactly when core i is in S.
IsIndicatorOf(vector, S, cores) ==
    /\ Len(vector) = cores
    /\ \A i \in 0..cores - 1 : vector[i + 1] <=> i \in S

SetOf(seq) == { seq[i] : i \in 1..Len(seq) }

\* C16 (as claimed): a successful set_cpu_affinity(pid, S) with S a
\* non-empty set of cores of the machine, followed by a successful
\* get_cpu_affinity(pid), yields one entry per core, entry i true exactly
\* when i is in S.
C16_AffinityRoundTrip ==
    ( /\ Len(calls) = 2
      /\ calls[1].op = "set_cpu_affinity" /\ calls[1].result.ok
      /\ calls[2].op = "get_cpu_affinity" /\ calls[2].result.ok
      /\ calls[1].pid = calls[2].pid )
    => IsIndicatorOf(calls[2].result.value, SetOf(calls[1].arg), machine.cores)

\* C17: set_cpu_affinity with an empty list of cores is Err(InvalidInput),
\* no program is run, and the process table (the target's affinity
\* included) is as it was.
C17_EmptyListRejected ==
    \A i \in 1..Len(calls) :
        (calls[i].op = "set_cpu_affinity" /\ calls[i].arg = << >>) =>
            /\ ~calls[i].result.ok
            /\ calls[i].result.kind = "InvalidInput"
            /\ calls[i].commands = << >>
            /\ (i = Len(calls) => os = calls[i].before)
            /\ (i < Len(calls) => calls[i + 1].before = calls[i].before)

\* C17 witness: the empty list was passed for an existing, owned process
\* (which a run of taskset could have changed), right after a call that
\* narrowed its affinity.
C17_Witness ==
    /\ Len(calls) = 2
    /\ calls[1].op = "set_cpu_affinity" /\ calls[1].result.ok
    /\ calls[2].op = "set_cpu_affinity" /\ calls[2].arg = << >>
    /\ calls[2].pid = calls[1].pid
    /\ os[calls[2].pid].affinity = SetOf(calls[1].arg)
    /\ os[calls[2].pid].affinity # 0..machine.cores - 1

\* The signal kinds of the process-control interface.
SignalKinds == { "terminate", "force-kill", "pause", "resume", "hangup" }

\* C18 (as claimed): every kind of SignalKinds has a signal that send_signal
\* accepts, with one fixed number, and the numbers of different kinds differ.
C18_EveryKindHasItsSignal ==
    /\ \A kind \in SignalKinds : \E signal \in Signal : SignalPurpose[signal] = kind
    /\ \A a, b \in Signal : a # b => number(a) # number(b)
    /\ \A i \in 1..Len(calls) :
         calls[i].op = "send_signal" => calls[i].arg[1] \in Signal

\* C19 (as claimed): a send_signal that fails because the caller lacks
\* rights over the target is a permission error, and one that fails because
\* the pid does not exist is a not-found error, not a permission error.
C19_FailureCausesDistinguished ==
    \A i \in 1..Len(calls) :
        LET c == calls[i]
        IN  (c.op = "send_signal" /\ c.commands # << >> /\ ~c.result.ok) =>
                /\ (c.pid \in DOMAIN c.before => c.result.kind = "PermissionDenied")
                /\ (c.pid \notin DOMAIN c.before => c.result.kind = "NotFound")


\* C14: no refresh starts while another is in progress, and while one is in
\* progress no other callback that shares the monitor runs: the only frame
\* on the main thread's stack is the tick's, which holds the only borrow.
C14_NoOverlappingRefresh ==
    /\ refreshing <= 1
    /\ refreshing = 1 =>
         /\ Len(stack) = 1
         /\ Top.fn \in { "build", "timer" } /\ Top.pc = "refresh"
         /\ borrow = -1
    /\ \A i \in 1..Len(stack) : stack[i].pc = "refresh" => i = Len(stack) /\ refreshing = 1

\* C14 witness: a timer tick is inside refresh after earlier ticks and a
\* capacity change have left history behind.
C14_Witness ==
    /\ refreshing = 1
    /\ Top.fn = "timer"
    /\ process_history # EmptyTable
    /\ max_samples # DefaultMaxSamples


\* C25: after any sequence of ticks and capacity changes every buffer of
\* every history record has at most max_samples samples.
C25_BuffersWithinCapacity ==
    \A pid \in DOMAIN process_history :
        \A b \in Buffers : Len(process_history[pid][b]) <= max_samples

\* C25 witness: the capacity is below the largest one and a record that is
\* older than the last tick is full at it, every buffer alike.
C25_Witness ==
    /\ max_samples < MaxCap
    /\ \E pid \in DOMAIN process_history :
         /\ Len(origin[pid]) = max_samples
         /\ \A b \in Buffers : Len(process_history[pid][b]) = max_samples

\* C26: a tick with at most TopN (150 in the code) group leaders returns
\* every leader sample exactly once, idle leaders included.
C26_EveryLeaderReturnedOnce ==
    Cardinality(LeaderPids(system)) <= TopN =>
        /\ PidsOf(processes) = LeaderPids(system)
        /\ Len(processes) = Cardinality(LeaderPids(system))

\* C26 witness: TopN leaders, one of them without CPU or disk activity and
\* without members, all returned.
C26_Witness ==
    /\ Cardinality(LeaderPids(system)) = TopN
    /\ Len(processes) = TopN
    /\ \E i \in 1..Len(processes) :
         /\ total_cpu(processes[i]) = 0
         /\ total_disk_io(processes[i]) = 0
         /\ child_count(processes[i]) = 0


\* C27: every tick stores its own network reading as the previous reading,
\* and its rates are max(0, reading - the reading of the tick before).
C27_RateFromPrecedingReading ==
    [][ /\ << last_net_rx', last_net_tx' >> = net_log'[3]
        /\ net_rx_rate' = Max(0, net_log'[3][1] - net_log[3][1])
        /\ net_tx_rate' = Max(0, net_log'[3][2] - net_log[3][2]) ]_vars

\* C27 witness: the receive counter fell (a reset) and then grew: the tick
\* after the reset reports the growth since the post-reset value.
C27_Witness ==
    /\ net_log[1][1] > net_log[2][1]
    /\ net_log[3][1] > net_log[2][1]
    /\ net_log[3][1] < net_log[1][1]
    /\ net_rx_rate = net_log[3][1] - net_log[2][1]
    /\ last_net_rx = net_log[3][1]


\* C28 (as claimed): a successful get_cpu_affinity returns one boolean per
\* logical core of the machine, entry i true exactly when bit i of the mask
\* the OS reports (core i is in the affinity of the process) is set.
C28_AffinityVectorMatchesMask ==
    \A k \in 1..Len(calls) :
        (calls[k].op = "get_cpu_affinity" /\ calls[k].result.ok) =>
            IsIndicatorOf(calls[k].result.value,
                          calls[k].before[calls[k].pid].affinity, machine.cores)


\* C24 (as claimed): get_priority returns the nice value of the process
\* whatever its name, names with whitespace or parentheses included.
C24_NiceFieldReturned ==
    (files.query = "priority" /\ files.stat.readable /\ reply # << >>) =>
        reply[1] = Ok(files.nice)

\* The core kinds get_cpu_core_info returned, by core.
KindsReturned == [ cpu \in CoreIds |-> reply[1][cpu + 1].core_type ]

\* The kind the claimed rule gives a type name: the efficiency pattern
\* first, then "pcore" or "core", compared in lower case.
ClaimedKind(name) ==
    IF contains(to_lowercase(name), needle.ecore) \/ contains(to_lowercase(name), needle.atom)
    THEN "ECore"
    ELSE IF contains(to_lowercase(name), needle.pcore) \/ contains(to_lowercase(name), needle.core)
    THEN "PCore"
    ELSE "None"

\* The cores of the machine an entry lists, none if its list is unreadable.
ListedCores(entry) ==
    IF entry.cpulist.readable THEN parse_cpu_list(entry.cpulist.parts) \cap CoreIds ELSE {}

\* C22 (as claimed): every core listed under a type name that holds "ecore"
\* or "atom" (in any case) is an efficiency core, and every core listed under
\* a name that holds "pcore", or "core" without the efficiency pattern, is a
\* performance core (cores listed by one entry only).
C22_TypeNamesBySubstring ==
    (files.query = "cores" /\ reply # << >> /\ files.sys.types.exists) =>
        LET entries == files.sys.types.entries
        IN  \A k \in 1..Len(entries) :
              \A cpu \in ListedCores(entries[k]) :
                 ( /\ ClaimedKind(entries[k].name) # "None"
                   /\ \A j \in 1..Len(entries) : j # k => cpu \notin ListedCores(entries[j]) )
                 => KindsReturned[cpu] = ClaimedKind(entries[k].name)

\* What the entries of the types directory say about each core.
HybridKinds(sys) ==
    read_dir_loop(sys.types.entries, [ cpu \in CoreIds |-> "Standard" ])

\* The hybrid facility classifies at least one core.
HybridClaims(sys) ==
    sys.types.exists /\ \E cpu \in CoreIds : HybridKinds(sys)[cpu] # "Standard"

\* C21 (as claimed): if the types directory exists its result is used, cores
\* it does not claim being standard, and no core is a large-cache core; and
\* without the directory and without the AMD vendor string all are standard.
C21_StrictPriority ==
    (files.query = "cores" /\ reply # << >>) =>
        /\ files.sys.types.exists => KindsReturned = HybridKinds(files.sys)
        /\ (~files.sys.types.exists /\ ~contains_AMD(files.sys.cpuinfo.content)) =>
              \A cpu \in CoreIds : KindsReturned[cpu] = "Standard"

\* C21 (amended): if the hybrid facility classifies at least one core its
\* result is used, cores it does not claim being standard; a large-cache
\* core exists only if the facility is absent or classifies no core; and
\* when the facility classifies no core and the vendor string is not AMD's
\* all cores are standard.
C21_PriorityWhenClassified ==
    (files.query = "cores" /\ reply # << >>) =>
        /\ HybridClaims(files.sys) => KindsReturned = HybridKinds(files.sys)
        /\ (\E cpu \in CoreIds : KindsReturned[cpu] = "X3D") => ~HybridClaims(files.sys)
        /\ (~HybridClaims(files.sys) /\ ~contains_AMD(files.sys.cpuinfo.content)) =>
              \A cpu \in CoreIds : KindsReturned[cpu] = "Standard"

\* C21 witness: both rules have something to say (a classified core, and an
\* AMD machine whose cache sizes single out a group) and the answer is the
\* hybrid one, with a core it does not claim.
C21_Witness ==
    /\ files.query = "cores" /\ reply # << >>
    /\ HybridClaims(files.sys)
    /\ detect_amd_x3d_cores(files.sys, MaxCores) # {}
    /\ KindsReturned = HybridKinds(files.sys)
    /\ \E cpu \in CoreIds : KindsReturned[cpu] = "Standard"

\* A size file as kilobytes: "<n>K", "<n>M" or "<n>".
SizeInKb(text) == IF text.suffix = "M" THEN 1024 * text.number ELSE text.number

\* The cores that report an L3 size, and the sizes reported.
Reporting(sys) == { cpu \in CoreIds : sys.l3[cpu].readable }
SizesReported(sys) == { SizeInKb(sys.l3[cpu]) : cpu \in Reporting(sys) }

\* More than one size, the largest more than double the smallest.
OneGroupStandsOut(sys) ==
    \E small, large \in SizesReported(sys) :
        /\ \A size \in SizesReported(sys) : small <= size /\ size <= large
        /\ large > 2 * small

\* C23: on an AMD machine whose cores report well-formed L3 sizes (and where
\* the hybrid facility classifies nothing), if more than one size is reported
\* and the largest is more than double the smallest then exactly the cores
\* of the largest size are large-cache cores and the others standard;
\* otherwise no core is a large-cache core.
C23_LargestCacheGroup ==
    ( /\ files.query = "cores" /\ reply # << >>
      /\ contains_AMD(files.sys.cpuinfo.content)
      /\ ~HybridClaims(files.sys)
      /\ \A cpu \in Reporting(files.sys) : files.sys.l3[cpu].number >= 0 )
    => \A cpu \in CoreIds :
          /\ KindsReturned[cpu] \in { "X3D", "Standard" }
          /\ KindsReturned[cpu] = "X3D" <=>
                /\ OneGroupStandsOut(files.sys)
                /\ cpu \in Reporting(files.sys)
                /\ \A size \in SizesReported(files.sys) :
                      size <= SizeInKb(files.sys.l3[cpu])

\* C23 witness: an AMD machine with sizes given in K and in M, the largest
\* group marked and a smaller one not.
C23_Witness ==
    /\ files.query = "cores" /\ reply # << >>
    /\ contains_AMD(files.sys.cpuinfo.content)
    /\ ~HybridClaims(files.sys)
    /\ \A cpu \in CoreIds : files.sys.l3[cpu].readable /\ files.sys.l3[cpu].number >= 0
    /\ \E big, small \in CoreIds :
         /\ files.sys.l3[big].suffix = "M" /\ KindsReturned[big] = "X3D"
         /\ files.sys.l3[small].suffix = "K" /\ KindsReturned[small] = "Standard"


\* C29: a selection-changed callback that runs while ProcessListView::update
\* is repopulating the list (the updating flag is set) returns without
\* borrowing the monitor and without changing the selected pid; so no
\* callback panics on the monitor's RefCell, the mutable borrow is held by
\* the one tick in progress only, and the flag is set only inside update.
C29_UpdateGuardsSelection ==
    /\ last_selection.during_update =>
         ~last_selection.borrowed /\ ~last_selection.changed
    /\ ~aborted
    /\ borrow = -1 => Len(stack) = 1 /\ Top.fn \in { "build", "timer" }
    /\ updating => stack # << >> /\ Top.pc = "update"

\* C29 witness: a tick that holds the mutable borrow is inside update, a
\* process is selected, and the callback has just run with the flag set.
C29_Witness ==
    /\ stack # << >> /\ Top.fn = "timer" /\ Top.pc = "update"
    /\ updating /\ borrow = -1
    /\ selected_pid # 0
    /\ last_selection.seen /\ last_selection.during_update


\* C30: once a tick of a process window's timer has found the process gone,
\* the window is closed and the timer removed, the detail view of that window
\* is never updated again, and SourceId::remove is called at most once
\* whichever of the timer, Force Kill and close-request paths run.
C30_WindowClosesOnce ==
    /\ pw.ended_seen => ~pw.open /\ ~pw.timer
    /\ ~pw.late_update
    /\ pw.removes <= 1

\* C30 witness: the window had shown updates, then a tick found the process
\* gone and closed it, and the pid is in use again.
C30_Witness ==
    /\ pw.ended_seen
    /\ pw.updates > 0
    /\ pw.removes = 1 /\ ~pw.source_id
    /\ 1 \in DOMAIN os


=============================================================================
